---- MODULE Spec2Model ----
(***************************************************************************)
(* A model of the 3MF loading code of tangible-idea/SanD:                  *)
(*   - RealViewer.tsx   ThreeMFModel.load3MF   (merged geometry)           *)
(*   - ThreeMFViewer.tsx ThreeMFModel.loadModel (one mesh per object)      *)
(*   - 3MFLoader.js     the loader's document/build functions and the     *)
(*                      MaterialsAndPropertiesExtension                    *)
(* Coordinates are exact rationals <<numerator, denominator>>: the float   *)
(* rounding of the JavaScript numbers is not modelled.                     *)
(***************************************************************************)
EXTENDS Integers, Sequences, FiniteSets, TLC

(***************************************************************************)
(* Bounds of the input families.                                           *)
(***************************************************************************)
MaxObjects == 3
MaxRefs == 2
MaxBuild == 2
MaxVerts == 2
MaxTris == 2
MaxExtensions == 1
MaxLoads == 2
MaxEffectRuns == 3
MaxRenders == 2

(***************************************************************************)
(* Sequence and number helpers.                                            *)
(***************************************************************************)
Abs(n) == IF n < 0 THEN -n ELSE n

\* The single element of a one-element set. Binding a value as the element
\* of a one-element set evaluates it once, where a LET would evaluate it at
\* every use.
TheOnly(S) == CHOOSE x \in S : TRUE

\* The greatest common divisor of n and d, for d > 0.
Gcd(n, d) ==
    LET common == {g \in 1..d : d % g = 0 /\ Abs(n) % g = 0}
    IN  CHOOSE g \in common : \A h \in common : h <= g

SeqsUpTo(S, n) == UNION {[1..k -> S] : k \in 0..n}

RECURSIVE Concat(_)
Concat(ss) == IF ss = <<>> THEN <<>> ELSE Head(ss) \o Concat(Tail(ss))

\* Exact rationals <<n, d>> with d > 0, in lowest terms.
Rat(n, d) ==
    TheOnly({<<x[1] \div Gcd(x[1], x[2]), x[2] \div Gcd(x[1], x[2])>> :
             x \in {IF d < 0 THEN <<-n, -d>> ELSE <<n, d>>}})

RInt(n) == <<n, 1>>
RAdd(a, b) == TheOnly({Rat(x[1] * y[2] + y[1] * x[2], x[2] * y[2]) : x \in {a}, y \in {b}})
RSub(a, b) == TheOnly({Rat(x[1] * y[2] - y[1] * x[2], x[2] * y[2]) : x \in {a}, y \in {b}})
RMul(a, b) == TheOnly({Rat(x[1] * y[1], x[2] * y[2]) : x \in {a}, y \in {b}})
RLess(a, b) == \E x \in {a}, y \in {b} : x[1] * y[2] < y[1] * x[2]
RMax(a, b) == TheOnly({IF RLess(x, y) THEN y ELSE x : x \in {a}, y \in {b}})

(***************************************************************************)
(* The archive: what the XML of the model parts holds.                     *)
(***************************************************************************)
\* A transform attribute: twelve numbers, or <<>> when the attribute is absent.
NoTransform == <<>>
Shift5 == <<1, 0, 0, 0, 1, 0, 0, 0, 1, 5, 0, 0>>
Scale2 == <<2, 0, 0, 0, 2, 0, 0, 0, 2, 0, 0, 0>>
Transforms == {NoTransform, Shift5, Scale2}

\* An <object> element.
Object(id, hasMesh, verts, tris, comps) ==
    [id |-> id, hasMesh |-> hasMesh, verts |-> verts, tris |-> tris, comps |-> comps]

\* The mesh of the object at position k of the graph family: a triangle,
\* moved along x so that the meshes of different objects differ.
TriVerts(k) == << <<10 * (k - 1), 0, 0>>, <<10 * (k - 1) + 4, 0, 0>>, <<10 * (k - 1), 2, 1>> >>
TriTris == << <<0, 1, 2>> >>
MeshObject(k) == Object(k, TRUE, TriVerts(k), TriTris, <<>>)
GroupObject(k, refs) ==
    Object(k, FALSE, <<>>, <<>>, [j \in 1..Len(refs) |-> [objectid |-> refs[j], transform |-> NoTransform]])

Item(id, t) == [objectid |-> id, transform |-> t]

Part(objs, build) == [objs |-> objs, build |-> build]

\* Entry names, as sequences of characters of which only the leading "/" of a
\* relationship target is told apart from the rest of the path.
ModelName == <<"3D/3dmodel.model">>
MissingName == <<"3D/missing.model">>

\* The content of a .rels entry: its <Relationship> elements.
RelsFile(name) == <<[Target |-> <<"/">> \o name, Id |-> "rel0", Type |-> "3dmodel"]>>

\* An attribute of an element: <<>> when absent (getAttribute gives null),
\* else <<value>>.
Absent == <<>>
Attr(v) == <<v>>

\* The archive: its .rels entry (Absent when there is none, else Attr of its
\* content) and its 3D/*.model entries in archive order.
Archive(rels, parts) == [rels |-> rels, parts |-> parts]

\* Graph family: n objects, each a mesh or a component list, with at most
\* MaxRefs components in all; a reference names an object (itself included)
\* or the absent id n + 1; every object is built.
RECURSIVE GraphTail(_, _, _)
GraphTail(k, n, budget) ==
    IF k > n THEN {<<>>}
    ELSE UNION {
            {<<o>> \o rest : rest \in GraphTail(k + 1, n, budget - Len(o.comps))} :
            o \in {MeshObject(k)}
                  \cup {GroupObject(k, refs) : refs \in SeqsUpTo(1..(n + 1), budget) \ {<<>>}}}

GraphObjects(n) == GraphTail(1, n, MaxRefs)

GraphArchives ==
    UNION {{Archive(Attr(RelsFile(ModelName)), <<Part(objs, [k \in 1..n |-> Item(k, NoTransform)])>>) :
              objs \in GraphObjects(n)} : n \in 0..MaxObjects}

\* Instancing family: one or two mesh objects and a free build list whose
\* items name an object or the absent id.
InstancingArchives ==
    UNION {{Archive(Attr(RelsFile(ModelName)), <<Part([k \in 1..n |-> MeshObject(k)], build)>>) :
              build \in SeqsUpTo({Item(id, t) : id \in 1..(n + 1), t \in {NoTransform, Shift5}}, MaxBuild)} :
           n \in 1..2}

\* Chain family: the build item instantiates the top of a component chain
\* that ends at a mesh object; referenced objects are defined first.
ChainArchives ==
    {Archive(Attr(RelsFile(ModelName)), <<Part(<<MeshObject(1),
                            Object(2, FALSE, <<>>, <<>>, <<[objectid |-> 1, transform |-> tc]>>),
                            Object(3, FALSE, <<>>, <<>>, <<[objectid |-> 2, transform |-> tb]>>)>>,
                          <<Item(3, ta)>>)>>) : ta \in Transforms, tb \in Transforms, tc \in Transforms}
    \cup
    {Archive(Attr(RelsFile(ModelName)), <<Part(<<MeshObject(1),
                            Object(2, FALSE, <<>>, <<>>, <<[objectid |-> 1, transform |-> tb]>>)>>,
                          <<Item(2, ta)>>)>>) : ta \in Transforms, tb \in Transforms}

\* Mesh family: one object whose mesh has N vertices drawn from Points and M
\* triangles with indices below N (for N > 0).
Points == {<<0, 0, 0>>, <<4, 0, 0>>, <<0, 2, 0>>, <<-2, 1, 3>>, <<1, 1, 1>>, <<4, 2, 3>>}
TrisFor(n, m) ==
    [t \in 1..m |-> IF n = 0 THEN <<0, 0, 0>>
                    ELSE <<(t - 1) % n, t % n, (t + 1) % n>>]
MeshArchives ==
    {Archive(Attr(RelsFile(ModelName)), <<Part(<<Object(1, TRUE, vs, TrisFor(Len(vs), m), <<>>)>>, <<Item(1, NoTransform)>>)>>) :
        vs \in SeqsUpTo(Points, MaxVerts), m \in 0..MaxTris}

\* An archive without any 3D/*.model entry.
NoPartArchive == Archive(Attr(RelsFile(ModelName)), <<>>)

\* Index family: one object whose triangle names a vertex the mesh does not
\* have, by an index equal to the vertex count or by a negative one.
BadIndexArchives ==
    {Archive(Attr(RelsFile(ModelName)),
             <<Part(<<Object(1, TRUE, TriVerts(1), <<tri>>, <<>>)>>, <<Item(1, NoTransform)>>)>>) :
        tri \in {<<0, 1, 3>>, <<0, -1, 2>>}}

\* Collision family: two model parts that both define an object with id 1;
\* in the second archive a component of the second part references that id.
CollisionArchives ==
    {Archive(Attr(RelsFile(ModelName)),
             <<Part(<<MeshObject(1)>>, <<Item(1, NoTransform)>>),
               Part(<<Object(1, TRUE, TriVerts(2), TriTris, <<>>)>> \o more, <<>>)>>) :
        more \in {<<>>, <<GroupObject(2, <<1>>)>>}}

ViewerArchives ==
    GraphArchives \cup InstancingArchives \cup ChainArchives \cup MeshArchives \cup {NoPartArchive}
    \cup BadIndexArchives \cup CollisionArchives

(***************************************************************************)
(* State.                                                                  *)
(***************************************************************************)
VARIABLES
    viewer,          \* which ThreeMFModel component is mounted
    archive,         \* the archive behind the url
    pc,              \* position of the async load function
    partIdx,         \* RealViewer: index of the model file being read
    allObjectNodes,  \* RealViewer: objects collected over all model files
    i,               \* RealViewer: index of the object loop
    allVertices,     \* RealViewer: merged flat vertex buffer
    allIndices,      \* RealViewer: merged flat index buffer
    meshesFound,     \* RealViewer: number of meshes merged
    mesh,            \* RealViewer: useState mesh
    error,           \* useState error ("" is null): RealViewer's model, ThreeMFViewer's page
    meshes,          \* ThreeMFViewer: useState meshes
    isLoaded,        \* ThreeMFViewer: useState isLoaded
    lpc,                  \* 3MFLoader: which function of the loader has been applied
    availableExtensions,  \* 3MFLoader: this.availableExtensions
    data3mf,              \* 3MFLoader: result of loadDocument
    builtMeshes,          \* 3MFLoader: result of buildMeshes, object id -> mesh
    group,                \* 3MFLoader: children of the group made by build (object ids)
    loaderError,          \* 3MFLoader: what was thrown ("" is nothing)
    url,                  \* component lifecycle: the url prop
    mounted,              \* component lifecycle: ThreeMFModel is mounted
    hasStarted,           \* ThreeMFViewer: useState hasStarted of ThreeMFModel
    loads,                \* component lifecycle: the runs of the async load function
    isLoading,            \* ThreeMFViewer, STLViewer: useState isLoading of the page
    calls,                \* the callbacks invoked so far, in order
    onErrorGiven,         \* 3MFLoader: load was called with an onError callback
    selectedModel,        \* RealViewer STLSection: useState selectedModel
    geometryCache,        \* useLoader(STLLoader, url): the cached geometry of each url
    effectRuns,           \* how often the [geometry] effect has run on each cached geometry
    geometryReady,        \* STLViewer: useLoader has the geometry, the component no longer suspends
    modelSize,            \* RealViewer STLModel: useState modelSize (<<>> is null)
    meshScale,            \* STLViewer: meshRef.current.scale (<<>> before it is set)
    selectedColor         \* STLViewer: useState selectedColor of the page

loaderVars == <<lpc, availableExtensions, data3mf, builtMeshes, group, loaderError>>

loadLocals == <<pc, partIdx, allObjectNodes, i, allVertices, allIndices, meshesFound>>

viewerVars == <<viewer, pc, partIdx, allObjectNodes, i, allVertices, allIndices,
                meshesFound, mesh, error, meshes, isLoaded>>

lifeVars == <<url, mounted, hasStarted, loads, isLoading>>

callVars == <<calls, onErrorGiven>>

stlVars == <<selectedModel, geometryCache, effectRuns, geometryReady, modelSize, meshScale,
             selectedColor>>

vars == <<archive, viewerVars, loaderVars, lifeVars, callVars, stlVars>>

(***************************************************************************)
(* three.js geometry operations, on flat buffers of rationals.             *)
(***************************************************************************)
NoMesh == [position |-> <<>>, index |-> <<>>]

NumVerts(position) == Len(position) \div 3

\* The values of one axis (1 = x, 2 = y, 3 = z) of a flat position buffer.
AxisValues(position, axis) == {position[3 * (k - 1) + axis] : k \in 1..NumVerts(position)}

MinOf(S) == CHOOSE m \in S : \A x \in S : ~RLess(x, m)
MaxOf(S) == CHOOSE m \in S : \A x \in S : ~RLess(m, x)

\* BufferGeometry.computeBoundingBox: min and max corner over the position attribute.
computeBoundingBox(position) ==
    [min |-> [a \in 1..3 |-> MinOf(AxisValues(position, a))],
     max |-> [a \in 1..3 |-> MaxOf(AxisValues(position, a))]]

\* Box3.getCenter: (min + max) * 0.5.
getCenter(box) == [a \in 1..3 |-> RMul(RAdd(box.min[a], box.max[a]), Rat(1, 2))]

\* Box3.getSize: max - min.
getSize(box) == [a \in 1..3 |-> RSub(box.max[a], box.min[a])]

MaxDim(size) == RMax(size[1], RMax(size[2], size[3]))

\* scale = maxDim > 0 ? 2 / maxDim : 1
TargetSize == 2
ScaleFor(maxDim) ==
    TheOnly({IF RLess(RInt(0), m) THEN Rat(TargetSize * m[2], m[1]) ELSE RInt(1) : m \in {maxDim}})

\* BufferGeometry.translate(x, y, z) and BufferGeometry.scale(s, s, s).
translate(position, t) ==
    [k \in 1..Len(position) |-> RAdd(position[k], t[((k - 1) % 3) + 1])]
scale(position, s) == [k \in 1..Len(position) |-> RMul(position[k], s)]

\* Mutant of NormalizeGeometry: the geometry is scaled before it is moved by
\* the center of the unscaled box.
NormalizeScaleFirst(position) ==
    TheOnly({translate(scale(position, s), t) :
             t \in {[a \in 1..3 |-> RSub(RInt(0), getCenter(computeBoundingBox(position))[a])]},
             s \in {ScaleFor(MaxDim(getSize(computeBoundingBox(position))))}})

\* RealViewer: center and rescale the merged geometry:
\*   center = bbox.getCenter(), size = bbox.getSize(), maxDim = max(size),
\*   geometry.translate(-center), then geometry.scale(scale).
NormalizeGeometry(position) ==
    TheOnly({scale(translate(position, t), s) :
             t \in {[a \in 1..3 |-> RSub(RInt(0), getCenter(computeBoundingBox(position))[a])]},
             s \in {ScaleFor(MaxDim(getSize(computeBoundingBox(position))))}})

(***************************************************************************)
(* Parsing one <mesh> element (both viewers).                              *)
(***************************************************************************)
\* vertices.push(x, y, z) for every <vertex>.
parseVertices(verts) == Concat(verts)

\* Mutant of parseIndices: the indices are taken as 1-based.
parseIndicesOneBased(tris, offset) ==
    Concat([t \in 1..Len(tris) |-> <<tris[t][1] + offset + 1, tris[t][2] + offset + 1, tris[t][3] + offset + 1>>])

\* indices.push(v1 + offset, v2 + offset, v3 + offset) for every <triangle>.
parseIndices(tris, offset) ==
    Concat([t \in 1..Len(tris) |-> <<tris[t][1] + offset, tris[t][2] + offset, tris[t][3] + offset>>])

ToRationals(buffer) == [k \in 1..Len(buffer) |-> RInt(buffer[k])]

(***************************************************************************)
(* RealViewer.tsx, ThreeMFModel.load3MF.                                   *)
(***************************************************************************)
\* allObjectNodes.find(obj => obj.getAttribute('id') === objectId): the
\* position of the first object with that id, 0 when there is none.
FindObject(all, objectId) ==
    LET hits == {k \in 1..Len(all) : all[k].id = objectId}
    IN  IF hits = {} THEN 0 ELSE CHOOSE k \in hits : \A h \in hits : k <= h

\* The object whose <mesh> becomes meshNode for the object at position idx:
\* its own, else that of the first component whose referenced object has one;
\* 0 when no mesh is found.
MeshSource(all, idx) ==
    LET obj == all[idx]
        withMesh == {j \in 1..Len(obj.comps) :
                        /\ FindObject(all, obj.comps[j].objectid) # 0
                        /\ all[FindObject(all, obj.comps[j].objectid)].hasMesh}
    IN  IF obj.hasMesh THEN idx
        ELSE IF withMesh = {} THEN 0
        ELSE FindObject(all, obj.comps[CHOOSE j \in withMesh : \A h \in withMesh : j <= h].objectid)

\* Mutant of NextObject: an object without a mesh is skipped before the
\* loop variable is advanced.
NextObjectSkip(all, idx) == IF MeshSource(all, idx) = 0 THEN idx ELSE idx + 1

\* The loop variable after the body of the object loop: i++.
NextObject(all, idx) == idx + 1

\* catch (err): setError(message).
RV_Fail(msg) ==
    /\ pc' = "failed"
    /\ error' = msg
    /\ UNCHANGED <<stlVars, callVars, lifeVars, loaderVars, viewer, archive, partIdx, allObjectNodes, i, allVertices, allIndices,
                   meshesFound, mesh, meshes, isLoaded>>

\* await fetch(url); !response.ok throws.
RV_Fetch ==
    /\ viewer = "RealViewer"
    /\ pc = "fetch"
    /\ \E ok \in BOOLEAN :
          IF ok
          THEN /\ pc' = "arrayBuffer"
               /\ UNCHANGED <<stlVars, callVars, lifeVars, loaderVars, viewer, archive, partIdx, allObjectNodes, i, allVertices,
                              allIndices, meshesFound, mesh, error, meshes, isLoaded>>
          ELSE RV_Fail("Failed to fetch")

\* await response.arrayBuffer().
RV_ArrayBuffer ==
    /\ viewer = "RealViewer"
    /\ pc = "arrayBuffer"
    /\ pc' = "loadAsync"
    /\ UNCHANGED <<stlVars, callVars, lifeVars, loaderVars, viewer, archive, partIdx, allObjectNodes, i, allVertices, allIndices,
                   meshesFound, mesh, error, meshes, isLoaded>>

\* await zip.loadAsync(buffer), then the scan for 3D/*.model entries.
RV_LoadAsync ==
    /\ viewer = "RealViewer"
    /\ pc = "loadAsync"
    /\ IF Len(archive.parts) = 0
       THEN RV_Fail("No 3D model file found")
       ELSE /\ pc' = "readPart"
            /\ partIdx' = 1
            /\ UNCHANGED <<stlVars, callVars, lifeVars, loaderVars, viewer, archive, allObjectNodes, i, allVertices, allIndices,
                           meshesFound, mesh, error, meshes, isLoaded>>

\* await modelFile.async('text') for one model file; its objects are
\* collected. After the last file the object loop starts.
RV_ReadPart ==
    /\ viewer = "RealViewer"
    /\ pc = "readPart"
    /\ LET collected == allObjectNodes \o archive.parts[partIdx].objs
       IN  IF partIdx < Len(archive.parts)
           THEN /\ partIdx' = partIdx + 1
                /\ allObjectNodes' = collected
                /\ UNCHANGED <<stlVars, callVars, lifeVars, loaderVars, viewer, archive, pc, i, allVertices, allIndices, meshesFound,
                               mesh, error, meshes, isLoaded>>
           ELSE IF Len(collected) = 0
           THEN RV_Fail("No objects found")
           ELSE /\ allObjectNodes' = collected
                /\ pc' = "objects"
                /\ i' = 1
                /\ UNCHANGED <<stlVars, callVars, lifeVars, loaderVars, viewer, archive, partIdx, allVertices, allIndices, meshesFound,
                               mesh, error, meshes, isLoaded>>

\* One pass of the object loop.
RV_Object ==
    /\ viewer = "RealViewer"
    /\ pc = "objects"
    /\ i <= Len(allObjectNodes)
    /\ LET src == MeshSource(allObjectNodes, i)
           vertices == IF src = 0 THEN <<>> ELSE parseVertices(allObjectNodes[src].verts)
           indices == IF src = 0 THEN <<>>
                      ELSE parseIndices(allObjectNodes[src].tris, Len(allVertices) \div 3)
       IN  IF src # 0 /\ Len(vertices) > 0 /\ Len(indices) > 0
           THEN /\ allVertices' = allVertices \o vertices
                /\ allIndices' = allIndices \o indices
                /\ meshesFound' = meshesFound + 1
           ELSE UNCHANGED <<allVertices, allIndices, meshesFound>>
    /\ i' = NextObject(allObjectNodes, i)
    /\ UNCHANGED <<stlVars, callVars, lifeVars, loaderVars, viewer, archive, pc, partIdx, allObjectNodes, mesh, error, meshes, isLoaded>>

\* After the loop: the geometry is built, centered, rescaled and published.
RV_Finish ==
    /\ viewer = "RealViewer"
    /\ pc = "objects"
    /\ i > Len(allObjectNodes)
    /\ IF meshesFound = 0
       THEN RV_Fail("No valid mesh data found in 3MF file")
       ELSE /\ mesh' = [position |-> NormalizeGeometry(ToRationals(allVertices)),
                        index |-> allIndices]
            /\ pc' = "done"
            /\ UNCHANGED <<stlVars, callVars, lifeVars, loaderVars, viewer, archive, partIdx, allObjectNodes, i, allVertices,
                           allIndices, meshesFound, error, meshes, isLoaded>>

(***************************************************************************)
(* ThreeMFViewer.tsx, ThreeMFModel.loadModel.                              *)
(***************************************************************************)
\* Mutant of HasGeometry: the triangles of the mesh are not looked at.
HasGeometryVerticesOnly(obj) == obj.hasMesh /\ Len(obj.verts) > 0

\* An object that yields a mesh: it has a <mesh> with vertices and triangles.
HasGeometry(obj) == obj.hasMesh /\ Len(obj.verts) > 0 /\ Len(obj.tris) > 0

\* new THREE.Mesh(geometry, material): position (0, 0, 0), scale (1, 1, 1).
CreateMesh(obj) ==
    [position |-> ToRationals(parseVertices(obj.verts)),
     index |-> parseIndices(obj.tris, 0),
     pos |-> <<RInt(0), RInt(0), RInt(0)>>,
     scale |-> RInt(1)]

\* objectNodes.forEach: one mesh per object with geometry.
CreatedMeshes(objs) ==
    LET kept == SelectSeq(objs, HasGeometry)
    IN  [k \in 1..Len(kept) |-> CreateMesh(kept[k])]

\* boundingBox.expandByObject(mesh) over all meshes (world matrix still identity).
UnionBox(ms) ==
    LET boxes == {computeBoundingBox(ms[k].position) : k \in 1..Len(ms)}
    IN  [min |-> [a \in 1..3 |-> MinOf({b.min[a] : b \in boxes})],
         max |-> [a \in 1..3 |-> MaxOf({b.max[a] : b \in boxes})]]

\* mesh.position.sub(center); mesh.scale.setScalar(scale).
PlaceMesh(m, center, s) ==
    [m EXCEPT !.pos = [a \in 1..3 |-> RSub(m.pos[a], center[a])], !.scale = s]

\* Center and scale all meshes together:
\*   center = boundingBox.getCenter(), size = boundingBox.getSize(),
\*   maxDim = max(size), scale = maxDim > 0 ? 2 / maxDim : 1.
PlaceMeshes(ms) ==
    TheOnly({[k \in 1..Len(ms) |-> PlaceMesh(ms[k], center, s)] :
             center \in {getCenter(UnionBox(ms))},
             s \in {ScaleFor(MaxDim(getSize(UnionBox(ms))))}})

\* Where the renderer draws vertex k of a mesh: position + scale * vertex.
RenderedPosition(m) ==
    [k \in 1..Len(m.position) |-> RAdd(m.pos[((k - 1) % 3) + 1], RMul(m.scale, m.position[k]))]

\* catch (error): onError(message), which the page stores with setError.
TMF_Fail(msg) ==
    /\ pc' = "failed"
    /\ error' = msg
    /\ UNCHANGED <<stlVars, callVars, lifeVars, loaderVars, viewer, archive, partIdx, allObjectNodes, i, allVertices, allIndices,
                   meshesFound, mesh, meshes, isLoaded>>

\* await fetch(url); !response.ok throws.
TMF_Fetch ==
    /\ viewer = "ThreeMFViewer"
    /\ pc = "fetch"
    /\ \E ok \in BOOLEAN :
          IF ok
          THEN /\ pc' = "arrayBuffer"
               /\ UNCHANGED <<stlVars, callVars, lifeVars, loaderVars, viewer, archive, partIdx, allObjectNodes, i, allVertices,
                              allIndices, meshesFound, mesh, error, meshes, isLoaded>>
          ELSE TMF_Fail("HTTP error")

\* await response.arrayBuffer().
TMF_ArrayBuffer ==
    /\ viewer = "ThreeMFViewer"
    /\ pc = "arrayBuffer"
    /\ pc' = "loadAsync"
    /\ UNCHANGED <<stlVars, callVars, lifeVars, loaderVars, viewer, archive, partIdx, allObjectNodes, i, allVertices, allIndices,
                   meshesFound, mesh, error, meshes, isLoaded>>

\* await zip.loadAsync(buffer); modelFileName is the last 3D/*.model entry.
TMF_LoadAsync ==
    /\ viewer = "ThreeMFViewer"
    /\ pc = "loadAsync"
    /\ IF Len(archive.parts) = 0
       THEN TMF_Fail("No 3D model file found in 3MF")
       ELSE /\ pc' = "readModel"
            /\ partIdx' = Len(archive.parts)
            /\ UNCHANGED <<stlVars, callVars, lifeVars, loaderVars, viewer, archive, allObjectNodes, i, allVertices, allIndices,
                           meshesFound, mesh, error, meshes, isLoaded>>

\* await modelFile.async('text'), then the rest of loadModel.
TMF_ReadModel ==
    /\ viewer = "ThreeMFViewer"
    /\ pc = "readModel"
    /\ \E createdMeshes \in {CreatedMeshes(archive.parts[partIdx].objs)} :
           IF Len(createdMeshes) = 0
           THEN TMF_Fail("No valid meshes found in 3MF file")
           ELSE /\ meshes' = PlaceMeshes(createdMeshes)
                /\ isLoaded' = TRUE
                /\ pc' = "done"
                /\ UNCHANGED <<stlVars, callVars, lifeVars, loaderVars, viewer, archive, partIdx, allObjectNodes, i, allVertices,
                               allIndices, meshesFound, mesh, error>>

(***************************************************************************)
(* 3MFLoader.js: the functions parse defines.  Thrown TypeErrors are        *)
(* results with threw = TRUE.                                               *)
(***************************************************************************)
MaterialsNs == "http://schemas.microsoft.com/3dmanufacturing/material/2015/02"

\* ThreeMFLoader.MaterialsAndPropertiesExtension, the one extension object.
MaterialsAndPropertiesExtension == [ns |-> MaterialsNs]

Threw == [threw |-> TRUE]

\* An <object> of a loader archive: props[t] holds the p1, p2, p3 and pid
\* attributes of triangle t.
NoProps == [p1 |-> Absent, p2 |-> Absent, p3 |-> Absent, pid |-> Absent]
LObject(id, hasMesh, verts, tris, props) ==
    [id |-> id, hasMesh |-> hasMesh, verts |-> verts, tris |-> tris, comps |-> <<>>,
     props |-> props]

\* A model part of a loader archive: entry name, xmlns:prefix declarations
\* of <model>, <colorgroup> elements, objects and build items.
LPart(name, xmlns, colorgroups, objs, build) ==
    [name |-> name, xmlns |-> xmlns, colorgroups |-> colorgroups, objs |-> objs, build |-> build]

\* parseRelsXml: the attributes of the first <Relationship>.
parseRelsXml(relsFile) ==
    IF relsFile = <<>> THEN Threw
    ELSE [threw |-> FALSE, target |-> relsFile[1].Target, id |-> relsFile[1].Id,
          type |-> relsFile[1].Type]

\* The property object of one triangle: an attribute is kept when its
\* string is truthy, that is when it is present.
TriangleProperty(p) ==
    [k \in {a \in {"p1", "p2", "p3", "pid"} : p[a] # Absent} |-> p[k][1]]

\* parseMeshNode: flat vertices and triangles; the property objects of the
\* triangles that have at least one key.
parseMeshNode(obj) ==
    [vertices |-> ToRationals(Concat(obj.verts)),
     triangles |-> Concat(obj.tris),
     triangleProperties |->
        SelectSeq([t \in 1..Len(obj.props) |-> TriangleProperty(obj.props[t])],
                  LAMBDA tp : DOMAIN tp # {}),
     hasColors |-> FALSE,
     colors |-> <<>>]

\* parseComponentsNode has no body: the components of an object are dropped.
parseComponentsNode(comps) == <<>>

\* parseObjectNode.
parseObjectNode(obj) ==
    [id |-> obj.id, hasMesh |-> obj.hasMesh,
     mesh |-> IF obj.hasMesh THEN parseMeshNode(obj) ELSE <<>>,
     components |-> parseComponentsNode(obj.comps)]

\* parseResourcesNode: resourcesData.object[id] = objectData, a later object
\* with the same id replacing an earlier one.
parseResourcesNode(objs) ==
    [id \in {objs[k].id : k \in 1..Len(objs)} |->
        parseObjectNode(objs[CHOOSE k \in 1..Len(objs) :
                                /\ objs[k].id = id
                                /\ \A h \in 1..Len(objs) : objs[h].id = id => h <= k])]

\* new Matrix4().set(t0, t1, t2, 0, t3, t4, t5, 0, t6, t7, t8, 0, t9, t10, t11, 1):
\* the arguments of set are the rows of the matrix.
\* The k-th number of the split attribute; t[k] past the end is undefined,
\* which is not a number in every product it enters.
NaN == <<0, 0>>

IsNaN(a) == a[2] = 0

TransformNumber(t, k) == IF k <= Len(t) THEN RInt(t[k]) ELSE NaN

Matrix4Set(t) ==
    << <<TransformNumber(t, 1), TransformNumber(t, 2), TransformNumber(t, 3), RInt(0)>>,
       <<TransformNumber(t, 4), TransformNumber(t, 5), TransformNumber(t, 6), RInt(0)>>,
       <<TransformNumber(t, 7), TransformNumber(t, 8), TransformNumber(t, 9), RInt(0)>>,
       <<TransformNumber(t, 10), TransformNumber(t, 11), TransformNumber(t, 12), RInt(1)>> >>

\* parseBuildNode: objectid and, when the attribute is present, the matrix.
parseBuildNode(build) ==
    [b \in 1..Len(build) |->
        [objectid |-> build[b].objectid,
         hasTransform |-> build[b].transform # NoTransform,
         transform |-> IF build[b].transform # NoTransform
                       THEN Matrix4Set(build[b].transform) ELSE <<>>]]

\* The extensions map of a part: namespace -> prefix of the last xmlns:prefix
\* attribute with that namespace; its keys in order of first insertion.
ExtensionPrefix(xmlns, ns) ==
    xmlns[CHOOSE k \in 1..Len(xmlns) :
            /\ xmlns[k].ns = ns
            /\ \A h \in 1..Len(xmlns) : xmlns[h].ns = ns => h <= k].prefix
ExtensionKeys(xmlns) ==
    LET first == {k \in 1..Len(xmlns) : \A h \in 1..(k - 1) : xmlns[h].ns # xmlns[k].ns}
    IN  [j \in 1..Cardinality(first) |->
            xmlns[CHOOSE k \in first : Cardinality({h \in first : h < k}) = j - 1].ns]

\* parseModelNode, with the xml and extensions fields loadDocument adds.
parseModelNode(part) ==
    [resources |-> [object |-> parseResourcesNode(part.objs)],
     build |-> parseBuildNode(part.build),
     xml |-> [colorgroups |-> part.colorgroups],
     xmlns |-> part.xmlns]

\* loadDocument: relsName is the entry matching .rels; zip.file(relsName) is
\* null when there is none and .async then throws; else the rels are parsed
\* and every 3D/*.model entry is parsed into modelParts[name].
loadDocument(zip) ==
    IF zip.rels = Absent THEN Threw
    ELSE IF parseRelsXml(zip.rels[1]).threw THEN Threw
    ELSE [threw |-> FALSE,
          rels |-> parseRelsXml(zip.rels[1]),
          model |-> [k \in 1..Len(zip.parts) |->
                        [part |-> zip.parts[k].name, data |-> parseModelNode(zip.parts[k])]]]

\* new THREE.Color(colorStr), after colorStr.substring(0, 7) for #RRGGBBAA:
\* the alpha digits are dropped.
ParseColor(colorStr) == colorStr.rgb

\* triangle[key]: <<>> is undefined.
Prop(triangle, key) == IF key \in DOMAIN triangle THEN <<triangle[key]>> ELSE <<>>

\* a || b on numbers: undefined and 0 are falsy.
JsOr(a, b) == IF a # <<>> /\ a[1] # 0 THEN a ELSE b

\* colorMap[idx]: <<>> is undefined.
ColorAt(colorMap, idx) ==
    IF idx # <<>> /\ idx[1] \in 0..(Len(colorMap) - 1) THEN <<colorMap[idx[1] + 1]>> ELSE <<>>

\* c1 = colorMap[p1], c2 = colorMap[p2 || p1], c3 = colorMap[p3 || p1] and
\* the nine pushed channels; reading .r of undefined throws.
TriangleColors(colorMap, triangle) ==
    LET c1 == ColorAt(colorMap, Prop(triangle, "p1"))
        c2 == ColorAt(colorMap, JsOr(Prop(triangle, "p2"), Prop(triangle, "p1")))
        c3 == ColorAt(colorMap, JsOr(Prop(triangle, "p3"), Prop(triangle, "p1")))
    IN  IF c1 = <<>> \/ c2 = <<>> \/ c3 = <<>> THEN Threw
        ELSE [threw |-> FALSE, colors |-> c1[1] \o c2[1] \o c3[1]]

\* The loop over mesh.triangleProperties for one color group.
RECURSIVE GroupColors(_, _, _)
GroupColors(colorMap, id, tps) ==
    IF tps = <<>> THEN [threw |-> FALSE, colors |-> <<>>]
    ELSE IF Prop(Head(tps), "pid") # <<id>> THEN GroupColors(colorMap, id, Tail(tps))
    ELSE LET c == TriangleColors(colorMap, Head(tps))
             rest == GroupColors(colorMap, id, Tail(tps))
         IN  IF c.threw \/ rest.threw THEN Threw
             ELSE [threw |-> FALSE, colors |-> c.colors \o rest.colors]

\* MaterialsAndPropertiesExtension.apply(xml, ns, mesh): every <colorgroup>
\* whose prefix is ns replaces mesh.colors.
RECURSIVE apply(_, _, _)
apply(colorgroups, ns, meshData) ==
    IF colorgroups = <<>> THEN [threw |-> FALSE, mesh |-> meshData]
    ELSE IF Head(colorgroups).prefix # ns THEN apply(Tail(colorgroups), ns, meshData)
    ELSE LET g == Head(colorgroups)
             c == GroupColors([j \in 1..Len(g.colors) |-> ParseColor(g.colors[j])],
                              g.id, meshData.triangleProperties)
         IN  IF c.threw THEN Threw
             ELSE apply(Tail(colorgroups), ns,
                        [meshData EXCEPT !.hasColors = TRUE, !.colors = c.colors])

RECURSIVE ApplyEach(_, _, _, _)
ApplyEach(selected, xmlns, xml, meshData) ==
    IF selected = <<>> THEN [threw |-> FALSE, mesh |-> meshData]
    ELSE LET r == apply(xml.colorgroups, ExtensionPrefix(xmlns, Head(selected).ns), meshData)
         IN  IF r.threw THEN Threw ELSE ApplyEach(Tail(selected), xmlns, xml, r.mesh)

\* applyExtensions: for every declared namespace the registered extensions
\* with that ns, each applied in turn; nothing when no namespace is declared.
applyExtensionsUngated(xmlns, meshData, xml, registered) ==
    IF registered = <<>>
    THEN [threw |-> FALSE, mesh |-> meshData]
    ELSE apply(xml.colorgroups, "m", meshData)

applyExtensions(xmlns, meshData, xml, registered) ==
    LET keys == ExtensionKeys(xmlns)
        selected == Concat([k \in 1..Len(keys) |->
                              SelectSeq(registered, LAMBDA e : e.ns = keys[k])])
    IN  ApplyEach(selected, xmlns, xml, meshData)

\* buildMesh: geometry attributes and the material's vertexColors option.
buildMesh(meshData) ==
    [position |-> meshData.vertices,
     index |-> meshData.triangles,
     hasColor |-> meshData.hasColors,
     color |-> meshData.colors,
     vertexColors |-> meshData.hasColors /\ Len(meshData.colors) > 0]

\* Object.keys of resources.object: integer keys in ascending order.
RECURSIVE SortedIds(_)
SortedIds(S) ==
    IF S = {} THEN <<>>
    ELSE LET m == CHOOSE x \in S : \A y \in S : x <= y
         IN  <<m>> \o SortedIds(S \ {m})

\* The loops of buildMeshes over todo, pairs <<part, object id>>; an object
\* without <mesh> has no meshData and buildMesh throws on it.
RECURSIVE BuildMeshesFrom(_, _, _, _)
BuildMeshesFrom(data, registered, todo, acc) ==
    IF todo = <<>> THEN [threw |-> FALSE, meshes |-> acc]
    ELSE LET modelData == data.model[Head(todo)[1]].data
             objectData == modelData.resources.object[Head(todo)[2]]
             r == applyExtensions(modelData.xmlns, objectData.mesh, modelData.xml, registered)
         IN  IF ~objectData.hasMesh THEN Threw
             ELSE IF r.threw THEN Threw
             ELSE BuildMeshesFrom(data, registered, Tail(todo),
                                  (Head(todo)[2] :> buildMesh(r.mesh)) @@ acc)

\* buildMeshes: meshes[objectId] over all parts, a later part's object
\* replacing an earlier one with the same id.
buildMeshes(data, registered) ==
    BuildMeshesFrom(data, registered,
        Concat([k \in 1..Len(data.model) |->
                  LET ids == SortedIds(DOMAIN data.model[k].data.resources.object)
                  IN  [j \in 1..Len(ids) |-> <<k, ids[j]>>]]),
        <<>>)

RDiv(a, b) ==
    IF IsNaN(a) \/ IsNaN(b) \/ b[1] = 0 THEN NaN ELSE Rat(a[1] * b[2], a[2] * b[1])

\* Products and sums of matrix elements: not a number as soon as one operand is.
NMul(a, b) == IF IsNaN(a) \/ IsNaN(b) THEN NaN ELSE RMul(a, b)

NAdd(a, b) == IF IsNaN(a) \/ IsNaN(b) THEN NaN ELSE RAdd(a, b)

\* Row r of matrix m times (x, y, z, 1).
RowDot(m, r, v) ==
    NAdd(NAdd(NMul(m[r][1], v[1]), NMul(m[r][2], v[2])),
         NAdd(NMul(m[r][3], v[3]), m[r][4]))

\* BufferAttribute.applyMatrix4, Vector3.applyMatrix4 on every vertex: the
\* first three rows divided by the fourth (<<0, 0>> is a non-finite value).
applyMatrix4(position, m) ==
    [k \in 1..Len(position) |->
        LET v == <<position[3 * ((k - 1) \div 3) + 1], position[3 * ((k - 1) \div 3) + 2],
                   position[3 * ((k - 1) \div 3) + 3]>>
        IN  RDiv(RowDot(m, ((k - 1) % 3) + 1, v), RowDot(m, 4, v))]

\* refs['target'].substring(1).
Substring1(target) == Tail(target)

\* The loop of build: mesh = meshes[objectid]; a transform is applied to the
\* geometry of the mesh itself (undefined throws); group.add moves a mesh
\* that is already a child to the end and ignores undefined.
RECURSIVE BuildFrom(_, _, _)
BuildFrom(buildData, ms, children) ==
    IF buildData = <<>> THEN [threw |-> FALSE, meshes |-> ms, children |-> children]
    ELSE LET item == Head(buildData)
             defined == item.objectid \in DOMAIN ms
         IN  IF item.hasTransform /\ ~defined THEN Threw
             ELSE BuildFrom(Tail(buildData),
                    IF item.hasTransform
                    THEN [ms EXCEPT ![item.objectid].position = applyMatrix4(@, item.transform)]
                    ELSE ms,
                    IF defined
                    THEN SelectSeq(children, LAMBDA c : c # item.objectid) \o <<item.objectid>>
                    ELSE children)

\* build: the build items of data3mf.model[target without its first
\* character]; reading ['build'] of undefined throws.
build(ms, refs, data) ==
    LET hits == {k \in 1..Len(data.model) : data.model[k].part = Substring1(refs.target)}
    IN  IF hits = {} THEN Threw
        ELSE BuildFrom(data.model[CHOOSE k \in hits : TRUE].data.build, ms, <<>>)

(***************************************************************************)
(* Archives given to the loader.                                           *)
(***************************************************************************)
LMesh(k) == LObject(k, TRUE, TriVerts(k), TriTris, <<NoProps>>)

\* Relationship family: no .rels entry, one naming the model part, one
\* naming an entry the archive does not have, and one without any
\* <Relationship>; one or two mesh objects and a free build list.
RelsArchives ==
    UNION {{Archive(rels, <<LPart(ModelName, <<>>, <<>>, [k \in 1..n |-> LMesh(k)], items)>>) :
              rels \in {Absent, Attr(RelsFile(ModelName)), Attr(RelsFile(MissingName)), Attr(<<>>)},
              items \in SeqsUpTo({Item(id, t) : id \in 1..(n + 1), t \in Transforms}, MaxBuild)} :
           n \in 1..2}

\* An archive with an object that has components instead of a mesh.
ComponentsArchive ==
    Archive(Attr(RelsFile(ModelName)),
            <<LPart(ModelName, <<>>, <<>>,
                    <<LMesh(1), [LObject(2, FALSE, <<>>, <<>>, <<>>) EXCEPT
                                    !.comps = <<[objectid |-> 1, transform |-> NoTransform]>>]>>,
                    <<Item(2, NoTransform)>>)>>)

Red == [rgb |-> <<255, 0, 0>>, alpha |-> FALSE]
Green == [rgb |-> <<0, 255, 0>>, alpha |-> TRUE]
Blue == [rgb |-> <<0, 0, 255>>, alpha |-> FALSE]
ColorGroup(prefix, id, colors) == [prefix |-> prefix, id |-> id, colors |-> colors]

\* The property attributes of a triangle: indices into a two-color group.
TriangleProps ==
    [p1 : {Absent, Attr(0), Attr(1)}, p2 : {Absent, Attr(0), Attr(1)},
     p3 : {Absent, Attr(0), Attr(1)}, pid : {Absent, Attr("1")}]
SecondTriangleProps ==
    [p1 : {Attr(0), Attr(1)}, p2 : {Absent}, p3 : {Absent}, pid : {Absent, Attr("1")}]

\* Color family: one object of one or two triangles with property
\* attributes, with or without the namespace declaration and color groups.
ColorArchives ==
    {Archive(Attr(RelsFile(ModelName)),
             <<LPart(ModelName, xmlns, groups,
                     <<LObject(1, TRUE, TriVerts(1), [t \in 1..Len(props) |-> <<0, 1, 2>>], props)>>,
                     <<Item(1, NoTransform)>>)>>) :
        xmlns \in {<<>>, <<[prefix |-> "m", ns |-> MaterialsNs]>>, <<[prefix |-> "x", ns |-> "other"]>>},
        groups \in {<<>>,
                    <<ColorGroup("m", "1", <<Red, Green>>)>>,
                    <<ColorGroup("m", "1", <<Red, Green>>), ColorGroup("m", "2", <<Blue>>)>>},
        props \in {<<p>> : p \in TriangleProps}
                  \cup {<<p, q>> : p \in TriangleProps, q \in SecondTriangleProps}}

\* Build items whose transform attribute has 9 or 13 numbers instead of 12,
\* alone or next to an item without the attribute.
Short9 == <<1, 0, 0, 0, 1, 0, 0, 0, 1>>
Long13 == Shift5 \o <<7>>
MalformedTransformArchives ==
    {Archive(Attr(RelsFile(ModelName)),
             <<LPart(ModelName, <<>>, <<>>, <<LMesh(1), LMesh(2)>>, items)>>) :
        items \in {<<Item(1, t)>> : t \in {Short9, Long13}}
                  \cup {<<Item(1, t), Item(2, NoTransform)>> : t \in {Short9, Long13}}}

\* Objects without geometry next to a mesh object: an object with neither
\* <mesh> nor <components>, a mesh without vertices and a mesh without
\* triangles; the build list names the mesh object, or both objects.
EmptyObjects ==
    {LObject(1, FALSE, <<>>, <<>>, <<>>),
     LObject(1, TRUE, <<>>, <<>>, <<>>),
     LObject(1, TRUE, TriVerts(1), <<>>, <<>>)}
EmptyObjectArchives ==
    {Archive(Attr(RelsFile(ModelName)),
             <<LPart(ModelName, <<>>, <<>>, <<o, LMesh(2)>>, items)>>) :
        o \in EmptyObjects,
        items \in {<<Item(2, NoTransform)>>, <<Item(1, NoTransform), Item(2, NoTransform)>>}}

LoaderArchives ==
    RelsArchives \cup {ComponentsArchive} \cup ColorArchives \cup MalformedTransformArchives
    \cup EmptyObjectArchives

(***************************************************************************)
(* 3MFLoader.js: operations of the loader.  parse defines the functions    *)
(* above and throws before it calls any of them; L_LoadDocument,           *)
(* L_BuildMeshes and L_Build apply them in the order of their data.        *)
(***************************************************************************)
L_Fail ==
    /\ lpc' = "failed"
    /\ loaderError' = "TypeError"
    /\ UNCHANGED <<stlVars, callVars, lifeVars, archive, viewerVars, availableExtensions, data3mf, builtMeshes, group>>

\* addExtension(extension).
L_AddExtension ==
    /\ lpc = "idle"
    /\ Len(availableExtensions) < MaxExtensions
    /\ availableExtensions' = Append(availableExtensions, MaterialsAndPropertiesExtension)
    /\ UNCHANGED <<stlVars, callVars, lifeVars, archive, viewerVars, lpc, data3mf, builtMeshes, group, loaderError>>

\* Mutant of parse: the scene is built and returned.
parseReturnsScene(data) == [threw |-> FALSE, message |-> ""]

\* parse(data): the inner functions are defined, then the try block throws
\* before it reads data; the catch block throws the error again.
parse(data) ==
    [threw |-> TRUE,
     message |-> "3MF loading requires async implementation with JSZip. Please use the async load method."]

L_Parse ==
    /\ lpc = "idle"
    /\ parse(archive).threw
    /\ lpc' = "thrown"
    /\ loaderError' = parse(archive).message
    /\ UNCHANGED <<stlVars, callVars, lifeVars, archive, viewerVars, availableExtensions, data3mf, builtMeshes, group>>

\* load(url, onLoad, onProgress, onError): FileLoader fetches the file and
\* hands it to the callback, which calls onLoad(scope.parse(data)) in a try
\* block whose catch calls onError when there is one; when the fetch fails
\* FileLoader calls the onError it was given.
L_Load ==
    /\ lpc = "idle"
    /\ \E given \in BOOLEAN, fetched \in BOOLEAN :
          /\ onErrorGiven' = given
          /\ lpc' = "loadEnded"
          /\ IF ~fetched
             THEN /\ loaderError' = "fetch failed"
                  /\ calls' = calls \o (IF given THEN <<"onError">> ELSE <<>>)
             ELSE IF parse(archive).threw
             THEN /\ loaderError' = parse(archive).message
                  /\ calls' = calls \o (IF given THEN <<"onError">> ELSE <<>>)
             ELSE /\ loaderError' = ""
                  /\ calls' = Append(calls, "onLoad")
    /\ UNCHANGED <<stlVars, lifeVars, archive, viewerVars, availableExtensions, data3mf, builtMeshes, group>>

L_LoadDocument ==
    /\ lpc = "idle"
    /\ IF loadDocument(archive).threw THEN L_Fail
       ELSE /\ data3mf' = loadDocument(archive)
            /\ lpc' = "loaded"
            /\ UNCHANGED <<stlVars, callVars, lifeVars, archive, viewerVars, availableExtensions, builtMeshes, group, loaderError>>

L_BuildMeshes ==
    /\ lpc = "loaded"
    /\ IF buildMeshes(data3mf, availableExtensions).threw THEN L_Fail
       ELSE /\ builtMeshes' = buildMeshes(data3mf, availableExtensions).meshes
            /\ lpc' = "meshes"
            /\ UNCHANGED <<stlVars, callVars, lifeVars, archive, viewerVars, availableExtensions, data3mf, group, loaderError>>

L_Build ==
    /\ lpc = "meshes"
    /\ IF build(builtMeshes, data3mf.rels, data3mf).threw THEN L_Fail
       ELSE /\ builtMeshes' = build(builtMeshes, data3mf.rels, data3mf).meshes
            /\ group' = build(builtMeshes, data3mf.rels, data3mf).children
            /\ lpc' = "built"
            /\ UNCHANGED <<stlVars, callVars, lifeVars, archive, viewerVars, availableExtensions, data3mf, loaderError>>

(***************************************************************************)
(* Specification of the two viewers.                                       *)
(***************************************************************************)
Init ==
    /\ viewer \in {"RealViewer", "ThreeMFViewer"}
    /\ archive \in ViewerArchives
    /\ pc = "fetch"
    /\ partIdx = 0
    /\ allObjectNodes = <<>>
    /\ i = 0
    /\ allVertices = <<>>
    /\ allIndices = <<>>
    /\ meshesFound = 0
    /\ mesh = NoMesh
    /\ error = ""
    /\ meshes = <<>>
    /\ isLoaded = FALSE
    /\ lpc = "idle"
    /\ availableExtensions = <<>>
    /\ data3mf = <<>>
    /\ builtMeshes = <<>>
    /\ group = <<>>
    /\ loaderError = ""
    /\ url = "/linkedin.3mf"
    /\ mounted = TRUE
    /\ hasStarted = FALSE
    /\ loads = <<>>
    /\ isLoading = TRUE
    /\ calls = <<>>
    /\ onErrorGiven = FALSE
    /\ selectedModel = "instagram"
    /\ geometryCache = <<>>
    /\ effectRuns = <<>>
    /\ geometryReady = FALSE
    /\ modelSize = <<>>
    /\ meshScale = <<>>
    /\ selectedColor = "red"

Next ==
    \/ RV_Fetch
    \/ RV_ArrayBuffer
    \/ RV_LoadAsync
    \/ RV_ReadPart
    \/ RV_Object
    \/ RV_Finish
    \/ TMF_Fetch
    \/ TMF_ArrayBuffer
    \/ TMF_LoadAsync
    \/ TMF_ReadModel

Spec == Init /\ [][Next]_vars

\* Every pending step of the load function is eventually run by the event loop.
FairSpec == Spec /\ WF_vars(Next)

(***************************************************************************)
(* Specification of the loader.                                            *)
(***************************************************************************)
LoaderInit ==
    /\ archive \in LoaderArchives
    /\ viewer = "3MFLoader"
    /\ pc = "idle"
    /\ partIdx = 0
    /\ allObjectNodes = <<>>
    /\ i = 0
    /\ allVertices = <<>>
    /\ allIndices = <<>>
    /\ meshesFound = 0
    /\ mesh = NoMesh
    /\ error = ""
    /\ meshes = <<>>
    /\ isLoaded = FALSE
    /\ lpc = "idle"
    /\ availableExtensions = <<>>
    /\ data3mf = <<>>
    /\ builtMeshes = <<>>
    /\ group = <<>>
    /\ loaderError = ""
    /\ url = "/linkedin.3mf"
    /\ mounted = TRUE
    /\ hasStarted = FALSE
    /\ loads = <<>>
    /\ isLoading = TRUE
    /\ calls = <<>>
    /\ onErrorGiven = FALSE
    /\ selectedModel = "instagram"
    /\ geometryCache = <<>>
    /\ effectRuns = <<>>
    /\ geometryReady = FALSE
    /\ modelSize = <<>>
    /\ meshScale = <<>>
    /\ selectedColor = "red"

LoaderNext ==
    \/ L_AddExtension
    \/ L_Parse
    \/ L_Load
    \/ L_LoadDocument
    \/ L_BuildMeshes
    \/ L_Build

LoaderSpec == LoaderInit /\ [][LoaderNext]_vars

(***************************************************************************)
(* Lifecycle of the ThreeMFModel component: mount, unmount, change of the  *)
(* url prop, and the runs of the load function that its effect starts.     *)
(* A run is followed from await to await; what it parses is the archive    *)
(* behind its url.                                                         *)
(***************************************************************************)
Urls == {"/linkedin.3mf", "/instagram.3mf"}

\* The archive behind a url.
ArchiveAt(u) ==
    IF u = "/linkedin.3mf" THEN archive
    ELSE Archive(Attr(RelsFile(ModelName)), <<Part(<<MeshObject(2)>>, <<Item(2, NoTransform)>>)>>)

\* A run of load3MF / loadModel: it is at its first await when the effect returns.
Load(u) == [url |-> u, at |-> "fetch", isCancelled |-> FALSE]

\* The awaits of a run: fetch, response.arrayBuffer, zip.loadAsync, modelFile.async.
NextAwait(at) ==
    CASE at = "fetch" -> "arrayBuffer"
      [] at = "arrayBuffer" -> "loadAsync"
      [] at = "loadAsync" -> "text"

InFlight(l) == l.at \in {"fetch", "arrayBuffer", "loadAsync", "text"}

\* Mutant of MayPublish: the result is published whether or not the run was abandoned.
MayPublishAlways(l) == TRUE

\* if (!isCancelled) in front of the state updates and callbacks.
MayPublish(l) == ~l.isCancelled

\* The message of the error a run ends with.
FailureMessage(v, at, rejected) ==
    IF rejected
    THEN CASE at = "fetch" -> IF v = "RealViewer" THEN "Failed to fetch" ELSE "HTTP error"
           [] at = "arrayBuffer" -> "arrayBuffer rejected"
           [] at = "loadAsync" -> "loadAsync rejected"
           [] at = "text" -> "async rejected"
    ELSE IF v = "RealViewer" THEN "No valid mesh data found in 3MF file"
         ELSE "No valid meshes found in 3MF file"

\* The part a run reads has one object, and that object yields a mesh.
Loadable(a) ==
    /\ Len(a.parts) = 1
    /\ Len(a.parts[1].objs) = 1
    /\ HasGeometry(a.parts[1].objs[1])

\* What load3MF hands to setMesh for a loadable archive.
MergedMesh(a) ==
    [position |-> NormalizeGeometry(ToRationals(parseVertices(a.parts[1].objs[1].verts))),
     index |-> parseIndices(a.parts[1].objs[1].tris, 0)]

\* The component mounts with fresh state and its effect starts a run.
\* ThreeMFViewer: hasStarted is false in a fresh component, so the run starts;
\* setHasStarted(true) and onLoadStart() precede the first await.
Mount ==
    /\ ~mounted
    /\ Len(loads) < MaxLoads
    /\ mounted' = TRUE
    /\ loads' = Append(loads, Load(url))
    /\ IF viewer = "RealViewer"
       THEN /\ mesh' = NoMesh
            /\ error' = ""
            /\ UNCHANGED <<meshes, isLoaded, hasStarted, isLoading>>
       ELSE /\ meshes' = <<>>
            /\ isLoaded' = FALSE
            /\ hasStarted' = TRUE
            /\ isLoading' = TRUE
            /\ UNCHANGED <<mesh, error>>
    /\ UNCHANGED <<stlVars, callVars, archive, viewer, loadLocals, loaderVars, url>>

\* The component unmounts: the cleanup of its last effect sets isCancelled.
Unmount ==
    /\ mounted
    /\ mounted' = FALSE
    /\ loads' = [loads EXCEPT ![Len(loads)].isCancelled = TRUE]
    /\ UNCHANGED <<stlVars, callVars, archive, viewerVars, loaderVars, url, hasStarted, isLoading>>

\* The url prop changes. RealViewer (deps [url]): cleanup of the old effect,
\* then a new run; mesh and error keep their values. ThreeMFViewer (deps []):
\* the effect does not run again.
ChangeUrl ==
    /\ mounted
    /\ \E u \in Urls \ {url} :
          /\ url' = u
          /\ IF viewer = "RealViewer"
             THEN /\ Len(loads) < MaxLoads
                  /\ loads' = Append([loads EXCEPT ![Len(loads)].isCancelled = TRUE], Load(u))
             ELSE UNCHANGED loads
    /\ UNCHANGED <<stlVars, callVars, archive, viewerVars, loaderVars, mounted, hasStarted, isLoading>>

\* setMesh(createdMesh); setMeshes, setIsLoaded(true), onLoadComplete().
PublishSuccess(l) ==
    IF viewer = "RealViewer"
    THEN /\ mesh' = MergedMesh(ArchiveAt(l.url))
         /\ UNCHANGED <<error, meshes, isLoaded, isLoading>>
    ELSE /\ meshes' = PlaceMeshes(CreatedMeshes(ArchiveAt(l.url).parts[1].objs))
         /\ isLoaded' = TRUE
         /\ isLoading' = FALSE
         /\ UNCHANGED <<mesh, error>>

\* setError(message); onError(message), which the page stores with setError.
PublishFailure(msg) ==
    /\ error' = msg
    /\ UNCHANGED <<mesh, meshes, isLoaded, isLoading>>

\* A run resumes after its await: it goes on to the next await, or ends in
\* the try block or in the catch block.
LoadStep ==
    \E k \in 1..Len(loads), ok \in BOOLEAN :
        /\ InFlight(loads[k])
        /\ IF ok /\ loads[k].at # "text"
           THEN /\ loads' = [loads EXCEPT ![k].at = NextAwait(@)]
                /\ UNCHANGED <<mesh, error, meshes, isLoaded, isLoading>>
           ELSE IF ok /\ Loadable(ArchiveAt(loads[k].url))
           THEN /\ loads' = [loads EXCEPT ![k].at = "done"]
                /\ IF MayPublish(loads[k]) THEN PublishSuccess(loads[k])
                   ELSE UNCHANGED <<mesh, error, meshes, isLoaded, isLoading>>
           ELSE /\ loads' = [loads EXCEPT ![k].at = "failed"]
                /\ IF MayPublish(loads[k])
                   THEN PublishFailure(FailureMessage(viewer, loads[k].at, ~ok))
                   ELSE UNCHANGED <<mesh, error, meshes, isLoaded, isLoading>>
        /\ UNCHANGED <<stlVars, callVars, archive, viewer, loadLocals, loaderVars, url, mounted, hasStarted>>

\* What ThreeMFModel of RealViewer returns: the red box when error is set,
\* else the yellow box while mesh is null, else the mesh.
Rendered ==
    IF error # "" THEN "error box"
    ELSE IF mesh = NoMesh THEN "placeholder"
    ELSE "mesh"

\* Archives of the lifecycle: one object with a mesh, one object without.
LifecycleArchives ==
    {Archive(Attr(RelsFile(ModelName)), <<Part(<<MeshObject(1)>>, <<Item(1, NoTransform)>>)>>),
     Archive(Attr(RelsFile(ModelName)), <<Part(<<GroupObject(1, <<2>>)>>, <<Item(1, NoTransform)>>)>>)}

LifecycleInit ==
    /\ archive \in LifecycleArchives
    /\ viewer \in {"RealViewer", "ThreeMFViewer"}
    /\ pc = "idle"
    /\ partIdx = 0
    /\ allObjectNodes = <<>>
    /\ i = 0
    /\ allVertices = <<>>
    /\ allIndices = <<>>
    /\ meshesFound = 0
    /\ mesh = NoMesh
    /\ error = ""
    /\ meshes = <<>>
    /\ isLoaded = FALSE
    /\ lpc = "idle"
    /\ availableExtensions = <<>>
    /\ data3mf = <<>>
    /\ builtMeshes = <<>>
    /\ group = <<>>
    /\ loaderError = ""
    /\ url \in Urls
    /\ mounted = FALSE
    /\ hasStarted = FALSE
    /\ loads = <<>>
    /\ isLoading = TRUE
    /\ calls = <<>>
    /\ onErrorGiven = FALSE
    /\ selectedModel = "instagram"
    /\ geometryCache = <<>>
    /\ effectRuns = <<>>
    /\ geometryReady = FALSE
    /\ modelSize = <<>>
    /\ meshScale = <<>>
    /\ selectedColor = "red"

LifecycleNext ==
    \/ Mount
    \/ Unmount
    \/ ChangeUrl
    \/ LoadStep

LifecycleSpec == LifecycleInit /\ [][LifecycleNext]_vars

\* Every await of a run settles: the promise is resolved or rejected.
FairLifecycleSpec == LifecycleSpec /\ WF_vars(LoadStep)

(***************************************************************************)
(* The STL models: STLModel of RealViewer.tsx and STLModelWithLoading of   *)
(* STLViewer.tsx.  useLoader keeps one geometry object per url, and the    *)
(* [geometry] effect of either component changes that object in place.     *)
(***************************************************************************)
Models == {"instagram", "linkedin"}

\* url={`/${selectedModel}.stl`}
StlUrl(model) == IF model = "instagram" THEN "/instagram.stl" ELSE "/linkedin.stl"

StlUrls == {StlUrl(m) : m \in Models}

\* The geometries STLLoader delivers: one triangle, three vertices.
StlPoints == {<<0, 0, 0>>, <<4, 0, 0>>, <<0, 2, 1>>, <<-2, 1, 3>>}
StlGeometries == {ToRationals(a \o b \o c) : a \in StlPoints, b \in StlPoints, c \in StlPoints}

NegatedCenter(position) ==
    [a \in 1..3 |-> RSub(RInt(0), getCenter(computeBoundingBox(position))[a])]

\* Mutant of STLModelEffect: the geometry is scaled before it is moved by the
\* center of the unscaled box.
STLModelEffectScaleFirst(position) ==
    TheOnly({translate(scale(position, s), t) :
             t \in {NegatedCenter(position)},
             s \in {ScaleFor(MaxDim(getSize(computeBoundingBox(position))))}})

\* RealViewer STLModel, the [geometry] effect: geometry.translate(-center),
\* then geometry.scale(2 / maxDim) when maxDim > 0.
STLModelEffect(position) ==
    TheOnly({scale(translate(position, t), s) :
             t \in {NegatedCenter(position)},
             s \in {ScaleFor(MaxDim(getSize(computeBoundingBox(position))))}})

\* STLViewer STLModelWithLoading, the [geometry] effect: only
\* geometry.translate(-center); the scale 3 / maxDim goes to the mesh.
STLViewerEffect(position) == TheOnly({translate(position, t) : t \in {NegatedCenter(position)}})

FitSize == 3
FitScale(position) ==
    TheOnly({IF RLess(RInt(0), m) THEN Rat(FitSize * m[2], m[1]) ELSE RInt(1) :
             m \in {MaxDim(getSize(computeBoundingBox(position)))}})

\* The [geometry] effect of STLModel on the cached geometry of url u, with
\* setModelSize of the box computed after it.
RunSTLModelEffect(u) ==
    /\ effectRuns[u] < MaxEffectRuns
    /\ geometryCache' = [geometryCache EXCEPT ![u] = STLModelEffect(@)]
    /\ effectRuns' = [effectRuns EXCEPT ![u] = @ + 1]
    /\ modelSize' = getSize(computeBoundingBox(STLModelEffect(geometryCache[u])))

\* STLSection mounts with selectedModel 'instagram'; STLModel commits with
\* the geometry of its url and its effect runs.
STL_Mount ==
    /\ viewer = "RealViewer"
    /\ ~mounted
    /\ mounted' = TRUE
    /\ selectedModel' = "instagram"
    /\ url' = StlUrl("instagram")
    /\ RunSTLModelEffect(StlUrl("instagram"))
    /\ UNCHANGED <<callVars, archive, viewerVars, loaderVars, hasStarted, loads, isLoading,
                   geometryReady, meshScale, selectedColor>>

STL_Unmount ==
    /\ viewer = "RealViewer"
    /\ mounted
    /\ mounted' = FALSE
    /\ modelSize' = <<>>
    /\ UNCHANGED <<callVars, archive, viewerVars, loaderVars, url, hasStarted, loads, isLoading,
                   selectedModel, geometryCache, effectRuns, geometryReady, meshScale, selectedColor>>

\* setSelectedModel: the same STLModel gets another url, useLoader returns
\* the geometry cached for it, and the [geometry] effect runs on it.
STL_SelectModel ==
    /\ viewer = "RealViewer"
    /\ mounted
    /\ \E m \in Models \ {selectedModel} :
          /\ selectedModel' = m
          /\ url' = StlUrl(m)
          /\ RunSTLModelEffect(StlUrl(m))
    /\ UNCHANGED <<callVars, archive, viewerVars, loaderVars, mounted, hasStarted, loads, isLoading,
                   geometryReady, meshScale, selectedColor>>

\* Mutant of ShouldStart: onLoadStart is called whenever the effect runs.
ShouldStartAlways(started) == TRUE

\* if (!hasStarted) in the [hasStarted, onLoadStart] effect.
ShouldStart(started) == ~started

\* What the effects of one commit call: the [hasStarted, onLoadStart] effect,
\* then the [geometry, onLoadComplete] effect (geometry is set).
EffectCalls(started) ==
    (IF ShouldStart(started) THEN <<"onLoadStart">> ELSE <<>>) \o <<"onLoadComplete">>

\* The page's callbacks applied in order: onLoadStart is setIsLoading(true),
\* onLoadComplete is setIsLoading(false).
RECURSIVE ApplyCalls(_, _)
ApplyCalls(loading, cs) ==
    IF cs = <<>> THEN loading
    ELSE ApplyCalls(Head(cs) = "onLoadStart", Tail(cs))

\* useLoader gets the geometry: the component stops suspending.
STLV_Resolve ==
    /\ viewer = "STLViewer"
    /\ ~geometryReady
    /\ geometryReady' = TRUE
    /\ UNCHANGED <<callVars, lifeVars, archive, viewerVars, loaderVars, selectedModel, geometryCache,
                   effectRuns, modelSize, meshScale, selectedColor>>

\* The first commit of STLModelWithLoading: its three effects run in order.
STLV_Commit ==
    /\ viewer = "STLViewer"
    /\ geometryReady
    /\ ~mounted
    /\ effectRuns[url] < MaxEffectRuns
    /\ mounted' = TRUE
    /\ calls' = calls \o EffectCalls(hasStarted)
    /\ isLoading' = ApplyCalls(isLoading, EffectCalls(hasStarted))
    /\ hasStarted' = TRUE
    /\ geometryCache' = [geometryCache EXCEPT ![url] = STLViewerEffect(@)]
    /\ effectRuns' = [effectRuns EXCEPT ![url] = @ + 1]
    /\ meshScale' = FitScale(STLViewerEffect(geometryCache[url]))
    /\ UNCHANGED <<archive, viewerVars, loaderVars, url, loads, onErrorGiven, selectedModel,
                   geometryReady, modelSize, selectedColor>>

\* A color button sets another color: the page renders again and passes new
\* callbacks, so the two effects that depend on a callback run again in a
\* committed component; a suspended component has no effects to run.
STLV_ColorChange ==
    /\ viewer = "STLViewer"
    /\ Len(calls) <= 2 * MaxRenders
    /\ \E c \in {"red", "black", "pink"} \ {selectedColor} : selectedColor' = c
    /\ IF mounted
       THEN /\ calls' = calls \o EffectCalls(hasStarted)
            /\ isLoading' = ApplyCalls(isLoading, EffectCalls(hasStarted))
       ELSE UNCHANGED <<calls, isLoading>>
    /\ UNCHANGED <<archive, viewerVars, loaderVars, url, mounted, hasStarted, loads, onErrorGiven,
                   selectedModel, geometryCache, effectRuns, geometryReady, modelSize, meshScale>>

\* The page is left and opened again: page and component start from fresh
\* state; the geometry stays in the cache of useLoader.
STLV_Unmount ==
    /\ viewer = "STLViewer"
    /\ mounted
    /\ mounted' = FALSE
    /\ hasStarted' = FALSE
    /\ isLoading' = TRUE
    /\ calls' = <<>>
    /\ meshScale' = <<>>
    /\ selectedColor' = "red"
    /\ UNCHANGED <<archive, viewerVars, loaderVars, url, loads, onErrorGiven, selectedModel,
                   geometryCache, effectRuns, geometryReady, modelSize>>

StlInit ==
    /\ archive = NoPartArchive
    /\ viewer \in {"RealViewer", "STLViewer"}
    /\ pc = "idle"
    /\ partIdx = 0
    /\ allObjectNodes = <<>>
    /\ i = 0
    /\ allVertices = <<>>
    /\ allIndices = <<>>
    /\ meshesFound = 0
    /\ mesh = NoMesh
    /\ error = ""
    /\ meshes = <<>>
    /\ isLoaded = FALSE
    /\ lpc = "idle"
    /\ availableExtensions = <<>>
    /\ data3mf = <<>>
    /\ builtMeshes = <<>>
    /\ group = <<>>
    /\ loaderError = ""
    /\ url = "/linkedin.stl"
    /\ mounted = FALSE
    /\ hasStarted = FALSE
    /\ loads = <<>>
    /\ isLoading = TRUE
    /\ calls = <<>>
    /\ onErrorGiven = FALSE
    /\ selectedModel = "instagram"
    /\ geometryCache \in {[u \in StlUrls |-> IF u = "/linkedin.stl" THEN g
                                              ELSE ToRationals(Concat(TriVerts(1)))] :
                              g \in StlGeometries}
    /\ effectRuns = [u \in StlUrls |-> 0]
    /\ geometryReady = FALSE
    /\ modelSize = <<>>
    /\ meshScale = <<>>
    /\ selectedColor = "red"

StlNext ==
    \/ STL_Mount
    \/ STL_Unmount
    \/ STL_SelectModel
    \/ STLV_Resolve
    \/ STLV_Commit
    \/ STLV_ColorChange
    \/ STLV_Unmount

StlSpec == StlInit /\ [][StlNext]_vars

(***************************************************************************)
(* What the claims speak about.                                            *)
(***************************************************************************)
\* The object table over all model parts and the build list of the root part.
ArchiveObjects == Concat([k \in 1..Len(archive.parts) |-> archive.parts[k].objs])
BuildItems == IF archive.parts = <<>> THEN <<>> ELSE archive.parts[1].build
DefinedIds == {ArchiveObjects[k].id : k \in 1..Len(ArchiveObjects)}

Terminated == pc \in {"done", "failed"}
TransportError == error \in {"Failed to fetch", "HTTP error"}

\* The ids an object's component list references.
RefsOf(id) ==
    LET k == FindObject(ArchiveObjects, id)
    IN  IF k = 0 THEN {}
        ELSE {ArchiveObjects[k].comps[j].objectid : j \in 1..Len(ArchiveObjects[k].comps)}

RECURSIVE ReachableFrom(_)
ReachableFrom(S) ==
    LET T == S \cup UNION {RefsOf(x) : x \in S}
    IN  IF T = S THEN S ELSE ReachableFrom(T)

\* A reference cycle that the walk from some build item runs into.
HasReferenceCycle ==
    \E b \in 1..Len(BuildItems) :
        \E x \in ReachableFrom({BuildItems[b].objectid}) : x \in ReachableFrom(RefsOf(x))

HasUnresolvedBuildItem ==
    \E b \in 1..Len(BuildItems) : BuildItems[b].objectid \notin DefinedIds

\* C1: a build item that references an object id no part defines makes the
\* load fail: the load never succeeds and no geometry is published.
C1_UnresolvedBuildItemFails ==
    (viewer = "RealViewer" /\ HasUnresolvedBuildItem) => (pc # "done" /\ mesh = NoMesh)

\* C2: an archive whose object graph contains a reference cycle makes the
\* load fail instead of producing geometry.
C2_ReferenceCycleFails ==
    (viewer = "RealViewer" /\ HasReferenceCycle) => (pc # "done" /\ mesh = NoMesh)

\* C3: for every object table and component-reference graph, cyclic ones
\* included, the load reaches a success state or an error state.
C3_LoadTerminates == <>Terminated

\* C3 witness: a load over a cyclic reference graph that has ended.
C3_Witness ==
    /\ viewer = "RealViewer"
    /\ HasReferenceCycle
    /\ pc = "done"
    /\ i = Len(allObjectNodes) + 1

\* A well-formed single-part archive with exactly one object, whose mesh has
\* N > 0 vertices and M > 0 triangles with all indices below N.
WellFormedSingle ==
    /\ Len(archive.parts) = 1
    /\ Len(ArchiveObjects) = 1
    /\ ArchiveObjects[1].hasMesh
    /\ Len(ArchiveObjects[1].verts) > 0
    /\ Len(ArchiveObjects[1].tris) > 0
    /\ \A t \in 1..Len(ArchiveObjects[1].tris) : \A c \in 1..3 :
          ArchiveObjects[1].tris[t][c] \in 0..(Len(ArchiveObjects[1].verts) - 1)

IndexBufferOk(index) ==
    /\ Len(index) = 3 * Len(ArchiveObjects[1].tris)
    /\ \A k \in 1..Len(index) : index[k] \in 0..(Len(ArchiveObjects[1].verts) - 1)

\* C4: for a well-formed single-part archive with one object of N vertices
\* and M triangles the load does not fail (a transport error aside) and the
\* index buffer it publishes has exactly 3M entries, each below N.
C4_SingleObjectIndexBuffer ==
    WellFormedSingle =>
        /\ pc = "failed" => TransportError
        /\ (pc = "done" /\ viewer = "RealViewer") => IndexBufferOk(mesh.index)
        /\ (pc = "done" /\ viewer = "ThreeMFViewer") =>
              (Len(meshes) = 1 /\ IndexBufferOk(meshes[1].index))

\* C4 witness: both triangles of a two-vertex mesh have been published.
C4_Witness ==
    /\ WellFormedSingle
    /\ viewer = "RealViewer"
    /\ pc = "done"
    /\ Len(mesh.index) = 6
    /\ Len(mesh.position) = 6

Zero3 == <<RInt(0), RInt(0), RInt(0)>>
NonDegenerate(position) == RLess(RInt(0), MaxDim(getSize(computeBoundingBox(position))))

\* C5: RealViewer; for a non-degenerate merged geometry the bounding box of
\* the published vertex buffer is centered at the origin and its longest
\* dimension is the target size.
C5_NormalizedGeometry ==
    (viewer = "RealViewer" /\ pc = "done" /\ NonDegenerate(ToRationals(allVertices))) =>
        LET box == computeBoundingBox(mesh.position)
        IN  /\ getCenter(box) = Zero3
            /\ MaxDim(getSize(box)) = RInt(TargetSize)

\* C5 witness: a merged geometry that was neither centered nor of the target
\* size before the pass.
C5_Witness ==
    /\ viewer = "RealViewer"
    /\ pc = "done"
    /\ NonDegenerate(ToRationals(allVertices))
    /\ getCenter(computeBoundingBox(ToRationals(allVertices))) # Zero3
    /\ MaxDim(getSize(computeBoundingBox(ToRationals(allVertices)))) = RInt(6)

\* The bounding box of what the renderer draws for ThreeMFViewer's meshes.
RenderedBox ==
    UnionBox([k \in 1..Len(meshes) |-> [position |-> RenderedPosition(meshes[k])]])

\* C6: ThreeMFViewer; for a non-degenerate set of meshes the rendered
\* vertices lie in a bounding box centered at the origin whose longest
\* dimension is the target size.
C6_RenderedNormalized ==
    (viewer = "ThreeMFViewer" /\ pc = "done"
        /\ NonDegenerate(Concat([k \in 1..Len(meshes) |-> meshes[k].position]))) =>
        /\ getCenter(RenderedBox) = Zero3
        /\ MaxDim(getSize(RenderedBox)) = RInt(TargetSize)

\* A transform of the 3MF core specification applied to a vertex: the first
\* nine numbers are the 3x3 block, the last three the translation.
ApplyTransform(T, v) ==
    IF T = NoTransform THEN v
    ELSE <<T[1] * v[1] + T[4] * v[2] + T[7] * v[3] + T[10],
           T[2] * v[1] + T[5] * v[2] + T[8] * v[3] + T[11],
           T[3] * v[1] + T[6] * v[2] + T[9] * v[3] + T[12]>>

RECURSIVE ApplyAll(_, _)
ApplyAll(ts, v) == IF ts = <<>> THEN v ELSE ApplyAll(Tail(ts), ApplyTransform(Head(ts), v))

\* The archive is one component chain: a single build item whose object is
\* a mesh or leads to one through component lists of one component each.
RECURSIVE IsChainFrom(_, _)
IsChainFrom(id, fuel) ==
    LET k == FindObject(ArchiveObjects, id)
    IN  /\ k # 0
        /\ \/ ArchiveObjects[k].hasMesh
           \/ /\ fuel > 0
              /\ Len(ArchiveObjects[k].comps) = 1
              /\ IsChainFrom(ArchiveObjects[k].comps[1].objectid, fuel - 1)

IsChainArchive ==
    Len(BuildItems) = 1 /\ IsChainFrom(BuildItems[1].objectid, Len(ArchiveObjects))

\* The vertices the chain from object id must yield: the mesh vertices with
\* the transforms applied innermost first (ts lists them in that order).
RECURSIVE ChainOutput(_, _)
ChainOutput(id, ts) ==
    LET obj == ArchiveObjects[FindObject(ArchiveObjects, id)]
    IN  IF obj.hasMesh THEN {ApplyAll(ts, obj.verts[k]) : k \in 1..Len(obj.verts)}
        ELSE ChainOutput(obj.comps[1].objectid, <<obj.comps[1].transform>> \o ts)

OutputVertex(k) ==
    <<allVertices[3 * (k - 1) + 1], allVertices[3 * (k - 1) + 2], allVertices[3 * (k - 1) + 3]>>

\* C7: along a component chain A->B->C with transforms Ta, Tb, Tc every
\* output vertex is a mesh vertex with Tc, then Tb, then Ta applied.
C7_ChainTransformsApplied ==
    (viewer = "RealViewer" /\ pc = "done" /\ IsChainArchive) =>
        \A k \in 1..NumVerts(allVertices) :
            OutputVertex(k) \in ChainOutput(BuildItems[1].objectid, <<BuildItems[1].transform>>)

\* C8: an archive with one mesh object of N vertices and M triangles that
\* the build list instantiates k times yields k*N vertices and k*M triangles.
C8_InstancesMerged ==
    (/\ viewer = "RealViewer"
     /\ pc = "done"
     /\ Len(ArchiveObjects) = 1
     /\ Len(BuildItems) >= 1
     /\ \A b \in 1..Len(BuildItems) : BuildItems[b].objectid = ArchiveObjects[1].id) =>
        /\ NumVerts(allVertices) = Len(BuildItems) * Len(ArchiveObjects[1].verts)
        /\ Len(allIndices) = 3 * Len(BuildItems) * Len(ArchiveObjects[1].tris)

\* The archive given to the loader has one model part whose objects all
\* have a mesh and whose build items all name one of them.
OneWellFormedPart ==
    /\ Len(archive.parts) = 1
    /\ \A k \in 1..Len(ArchiveObjects) : ArchiveObjects[k].hasMesh
    /\ \A b \in 1..Len(BuildItems) : BuildItems[b].objectid \in DefinedIds

NoRelsEntry == archive.rels = Absent

DanglingRels ==
    /\ archive.rels # Absent
    /\ archive.rels[1] # <<>>
    /\ \A k \in 1..Len(archive.parts) :
          <<"/">> \o archive.parts[k].name # archive.rels[1][1].Target

\* C9: with no .rels entry, or with a .rels entry whose target is not an
\* entry of the archive, the loader still loads the one well-formed model
\* part: no function of the loader fails.
C9_RelsFallbackSucceeds ==
    (viewer = "3MFLoader" /\ OneWellFormedPart /\ (NoRelsEntry \/ DanglingRels)) =>
        lpc # "failed"

\* The loader has built the meshes of an archive whose one part declares
\* the materials namespace, has one color group under its prefix, and whose
\* triangles all carry that group's pid and a p1.
ColoredTriangles ==
    /\ viewer = "3MFLoader"
    /\ lpc \in {"meshes", "built"}
    /\ availableExtensions # <<>>
    /\ Len(archive.parts) = 1
    /\ Len(archive.parts[1].xmlns) = 1
    /\ archive.parts[1].xmlns[1].ns = MaterialsNs
    /\ Len(archive.parts[1].colorgroups) = 1
    /\ archive.parts[1].colorgroups[1].prefix = archive.parts[1].xmlns[1].prefix
    /\ Len(ArchiveObjects) = 1
    /\ \A t \in 1..Len(ArchiveObjects[1].props) :
          /\ ArchiveObjects[1].props[t].pid = Attr(archive.parts[1].colorgroups[1].id)
          /\ ArchiveObjects[1].props[t].p1 # Absent

\* The color index of a triangle vertex: the attribute, p1 when it is absent.
IndexOrP1(p, key) == IF p[key] # Absent THEN p[key][1] ELSE p.p1[1]

ExpectedColors(props, colors) ==
    Concat([t \in 1..Len(props) |->
              colors[props[t].p1[1] + 1].rgb
              \o colors[IndexOrP1(props[t], "p2") + 1].rgb
              \o colors[IndexOrP1(props[t], "p3") + 1].rgb])

\* C10: every triangle whose pid matches the color group gets the colors
\* colors[p1], colors[p2], colors[p3], colors[p1] standing in only for an
\* absent p2 or p3, whatever the index values are (0 included).
C10_TriangleColors ==
    ColoredTriangles =>
        builtMeshes[ArchiveObjects[1].id].color =
            ExpectedColors(ArchiveObjects[1].props, archive.parts[1].colorgroups[1].colors)

\* C11: at most one run of the load function is in flight per url: a second
\* request for a url whose run is outstanding starts no second fetch/parse.
C11_SingleFlightPerUrl ==
    \A j \in 1..Len(loads), k \in 1..Len(loads) :
        (j # k /\ InFlight(loads[j]) /\ InFlight(loads[k])) => loads[j].url # loads[k].url

\* C12: a run that was abandoned (its cleanup has run) publishes nothing: the
\* step that ends it, in the try block or in the catch block, leaves the
\* component state and the page state untouched.
C12_AbandonedNeverPublishes ==
    [][\A k \in 1..Len(loads) :
          (loads[k].isCancelled /\ loads'[k] # loads[k]) =>
              UNCHANGED <<mesh, error, meshes, isLoaded, isLoading>>]_vars

\* C12 witness: an abandoned run has reached the end of its try block while a
\* later run is still in flight, and nothing has been published.
C12_Witness ==
    /\ \E k \in 1..Len(loads) : loads[k].isCancelled /\ loads[k].at = "done"
    /\ \E k \in 1..Len(loads) : ~loads[k].isCancelled /\ InFlight(loads[k])
    /\ mounted
    /\ mesh = NoMesh
    /\ meshes = <<>>
    /\ ~isLoaded

\* The index buffer names only vertices of the position buffer.
IndicesInRange(m) ==
    \A k \in 1..Len(m.index) : m.index[k] \in 0..(NumVerts(m.position) - 1)

\* C13: a triangle index that is negative or not below the vertex count of
\* its mesh never reaches an output index buffer.
C13_IndicesValidated ==
    pc = "done" =>
        /\ viewer = "RealViewer" => IndicesInRange(mesh)
        /\ viewer = "ThreeMFViewer" => \A j \in 1..Len(meshes) : IndicesInRange(meshes[j])

\* No object of the archive has a mesh with a vertex and a triangle.
NoObjectWithGeometry ==
    \A k \in 1..Len(ArchiveObjects) :
        ~(/\ ArchiveObjects[k].hasMesh
          /\ Len(ArchiveObjects[k].verts) > 0
          /\ Len(ArchiveObjects[k].tris) > 0)

LoadErrors ==
    {"Failed to fetch", "HTTP error", "No 3D model file found", "No 3D model file found in 3MF",
     "No objects found", "No valid mesh data found in 3MF file", "No valid meshes found in 3MF file"}

\* C14: when no object contributes a mesh with a vertex and a triangle the
\* load never succeeds and hands no mesh to the renderer; it ends with an
\* error, which is the no-valid-mesh error once the objects have been looked at.
C14_EmptySceneFails ==
    NoObjectWithGeometry =>
        /\ pc # "done"
        /\ mesh = NoMesh
        /\ meshes = <<>>
        /\ ~isLoaded
        /\ pc = "failed" => error \in LoadErrors
        /\ (pc = "failed" /\ viewer = "RealViewer" /\ i > Len(allObjectNodes) /\ allObjectNodes # <<>>) =>
              error = "No valid mesh data found in 3MF file"
        /\ (pc = "failed" /\ viewer = "ThreeMFViewer" /\ partIdx > 0) =>
              error = "No valid meshes found in 3MF file"

\* C14 witness: the object loop has run over objects that yield no mesh and
\* the load has failed.
C14_Witness ==
    /\ NoObjectWithGeometry
    /\ viewer = "RealViewer"
    /\ pc = "failed"
    /\ Len(allObjectNodes) >= 1
    /\ i > Len(allObjectNodes)
    /\ \E k \in 1..Len(allObjectNodes) : allObjectNodes[k].hasMesh
    /\ error = "No valid mesh data found in 3MF file"

\* Two model parts define an object with the same id.
HasIdCollision ==
    \E p \in 1..Len(archive.parts), q \in 1..Len(archive.parts) :
        /\ p # q
        /\ \E a \in 1..Len(archive.parts[p].objs), b \in 1..Len(archive.parts[q].objs) :
              archive.parts[p].objs[a].id = archive.parts[q].objs[b].id

\* C15: when two model parts define objects with the same id the load fails
\* instead of letting one of the objects win the id.
C15_IdCollisionFails ==
    (viewer = "RealViewer" /\ HasIdCollision) => pc # "done"

\* C16: an extension registered with the loader is applied to a part's
\* meshes only if the part's model element declares the extension's
\* namespace: without the declaration no mesh of the part gets colors, even
\* with the extension registered and color groups present.
NamespaceDeclared(part, ns) == \E k \in 1..Len(part.xmlns) : part.xmlns[k].ns = ns

C16_ExtensionGatedByNamespace ==
    (/\ viewer = "3MFLoader"
     /\ lpc \in {"meshes", "built"}
     /\ Len(archive.parts) = 1
     /\ ~NamespaceDeclared(archive.parts[1], MaterialsNs))
        => \A id \in DOMAIN builtMeshes : ~builtMeshes[id].hasColor

C16_Witness ==
    /\ viewer = "3MFLoader"
    /\ lpc = "built"
    /\ availableExtensions # <<>>
    /\ Len(archive.parts) = 1
    /\ ~NamespaceDeclared(archive.parts[1], MaterialsNs)
    /\ archive.parts[1].colorgroups # <<>>
    /\ \A t \in 1..Len(ArchiveObjects[1].props) :
          /\ ArchiveObjects[1].props[t].pid = Attr("1")
          /\ ArchiveObjects[1].props[t].p1 # Absent
    /\ ~builtMeshes[1].hasColor

\* C17: a build item whose transform attribute does not have exactly 12
\* numbers is left out of the parsed build list, and the items around it
\* are kept.
WellFormedTransform(t) == Len(t) \in {0, 12}

C17_MalformedTransformDropped ==
    (/\ viewer = "3MFLoader"
     /\ lpc \in {"loaded", "meshes", "built"}
     /\ Len(archive.parts) = 1)
        => Len(data3mf.model[1].data.build) =
               Cardinality({b \in 1..Len(BuildItems) : WellFormedTransform(BuildItems[b].transform)})

\* C18: a build transform whose 3x3 block is the identity and whose last
\* three numbers are (tx, ty, tz) moves every vertex of the item's mesh to
\* (x + tx, y + ty, z + tz).
IsTranslation(t) == Len(t) = 12 /\ SubSeq(t, 1, 9) = <<1, 0, 0, 0, 1, 0, 0, 0, 1>>

Translated(verts, t) ==
    ToRationals(Concat([k \in 1..Len(verts) |-> ApplyTransform(t, verts[k])]))

C18_TranslationMovesVertices ==
    (/\ viewer = "3MFLoader"
     /\ lpc = "built"
     /\ Len(archive.parts) = 1
     /\ Len(BuildItems) = 1
     /\ IsTranslation(BuildItems[1].transform)
     /\ BuildItems[1].objectid \in DefinedIds)
        => builtMeshes[BuildItems[1].objectid].position =
               Translated(ArchiveObjects[FindObject(ArchiveObjects, BuildItems[1].objectid)].verts,
                          BuildItems[1].transform)

\* C19: the color buffer of a colored mesh is per vertex: it has exactly
\* three entries for every vertex, and a triangle's colors sit at the slots
\* of its vertices (stated for the slot of v1 of the last triangle, whose
\* color colors[p1] does not depend on how p2 and p3 are defaulted).
ColorSlot(color, v) == SubSeq(color, 3 * v + 1, 3 * v + 3)

CornerColor(p, key, colors) == colors[IndexOrP1(p, key) + 1].rgb

C19_ColorsPerVertex ==
    ColoredTriangles =>
        LET obj == ArchiveObjects[1]
            m == builtMeshes[obj.id]
            last == Len(obj.tris)
            colors == archive.parts[1].colorgroups[1].colors
        IN  /\ Len(m.color) = Len(m.position)
            /\ ColorSlot(m.color, obj.tris[last][1]) = CornerColor(obj.props[last], "p1", colors)

\* C20: when the part declares color groups and no triangle's pid matches
\* one of them, the mesh gets no color buffer: no color attribute is set and
\* the material is the flat default one.
UnmatchedColorGroups ==
    /\ viewer = "3MFLoader"
    /\ lpc \in {"meshes", "built"}
    /\ availableExtensions # <<>>
    /\ Len(archive.parts) = 1
    /\ NamespaceDeclared(archive.parts[1], MaterialsNs)
    /\ archive.parts[1].colorgroups # <<>>
    /\ Len(ArchiveObjects) = 1
    /\ \A t \in 1..Len(ArchiveObjects[1].props), g \in 1..Len(archive.parts[1].colorgroups) :
          ArchiveObjects[1].props[t].pid # Attr(archive.parts[1].colorgroups[g].id)

C20_NoMatchNoColorBuffer ==
    UnmatchedColorGroups =>
        /\ ~builtMeshes[ArchiveObjects[1].id].hasColor
        /\ ~builtMeshes[ArchiveObjects[1].id].vertexColors

\* C21: an object whose mesh has no vertices or no triangles, or that has
\* neither a mesh nor components, is skipped: it is no part of the output
\* and the load does not fail when another object supplies geometry.
IsEmptyObject(obj) ==
    \/ obj.hasMesh /\ (Len(obj.verts) = 0 \/ Len(obj.tris) = 0)
    \/ ~obj.hasMesh /\ obj.comps = <<>>

EmptyIds == {ArchiveObjects[k].id : k \in {j \in 1..Len(ArchiveObjects) : IsEmptyObject(ArchiveObjects[j])}}

C21_EmptyObjectSkipped ==
    (/\ viewer = "3MFLoader"
     /\ Len(archive.parts) = 1
     /\ archive.rels = Attr(RelsFile(ModelName))
     /\ \A b \in 1..Len(BuildItems) :
           BuildItems[b].objectid \in DefinedIds /\ BuildItems[b].transform = NoTransform
     /\ EmptyIds # {}
     /\ \E k \in 1..Len(ArchiveObjects) : ~IsEmptyObject(ArchiveObjects[k]))
        => /\ lpc # "failed"
           /\ lpc = "built" => \A c \in 1..Len(group) : group[c] \notin EmptyIds

\* C22: only build items seed the output.  For an archive of mesh objects
\* whose build items name distinct defined objects without a transform, the
\* merged geometry holds the mesh of every built object once and no vertex
\* of an object that no build item names.
BuiltIds == {BuildItems[b].objectid : b \in 1..Len(BuildItems)}

PlainBuildOfMeshes ==
    /\ Len(archive.parts) = 1
    /\ Len(BuildItems) >= 1
    /\ \A k \in 1..Len(ArchiveObjects) :
          /\ ArchiveObjects[k].hasMesh
          /\ Len(ArchiveObjects[k].verts) > 0
          /\ Len(ArchiveObjects[k].tris) > 0
    /\ \A k \in 1..Len(ArchiveObjects), h \in 1..Len(ArchiveObjects) :
          ArchiveObjects[k].id = ArchiveObjects[h].id => k = h
    /\ \A b \in 1..Len(BuildItems) :
          /\ BuildItems[b].objectid \in DefinedIds
          /\ BuildItems[b].transform = NoTransform
          /\ \A c \in 1..Len(BuildItems) : BuildItems[c].objectid = BuildItems[b].objectid => c = b

VerticesOfBuilt ==
    UNION {{ArchiveObjects[k].verts[v] : v \in 1..Len(ArchiveObjects[k].verts)} :
             k \in {j \in 1..Len(ArchiveObjects) : ArchiveObjects[j].id \in BuiltIds}}

C22_OnlyBuildItemsSeed ==
    (viewer = "RealViewer" /\ pc = "done" /\ PlainBuildOfMeshes) =>
        /\ \A k \in 1..NumVerts(allVertices) : OutputVertex(k) \in VerticesOfBuilt
        /\ meshesFound = Len(BuildItems)

\* C23: an object with a component list is resolved by visiting every
\* component: when each of its n components references an object with a
\* non-empty mesh, the step of the object loop for it merges n meshes.
ReferencedObject(comp) == allObjectNodes[FindObject(allObjectNodes, comp.objectid)]

AllComponentsHaveMeshes(obj) ==
    /\ ~obj.hasMesh
    /\ obj.comps # <<>>
    /\ \A j \in 1..Len(obj.comps) :
          /\ FindObject(allObjectNodes, obj.comps[j].objectid) # 0
          /\ ReferencedObject(obj.comps[j]).hasMesh
          /\ Len(ReferencedObject(obj.comps[j]).verts) > 0
          /\ Len(ReferencedObject(obj.comps[j]).tris) > 0

ComponentVertices(obj) ==
    Concat([j \in 1..Len(obj.comps) |-> parseVertices(ReferencedObject(obj.comps[j]).verts)])

C23_EveryComponentVisited ==
    [][(/\ viewer = "RealViewer"
        /\ pc = "objects"
        /\ i <= Len(allObjectNodes)
        /\ i' = i + 1
        /\ AllComponentsHaveMeshes(allObjectNodes[i]))
         => /\ meshesFound' = meshesFound + Len(allObjectNodes[i].comps)
            /\ Len(allVertices') = Len(allVertices) + Len(ComponentVertices(allObjectNodes[i]))]_vars

\* C24: a component whose objectid no part defines makes the load fail: the
\* load never succeeds and no geometry is published.
HasUnresolvedComponent ==
    \E k \in 1..Len(ArchiveObjects) :
        /\ ~ArchiveObjects[k].hasMesh
        /\ \E j \in 1..Len(ArchiveObjects[k].comps) :
              ArchiveObjects[k].comps[j].objectid \notin DefinedIds

C24_UnresolvedComponentFails ==
    (viewer = "RealViewer" /\ HasUnresolvedComponent) => (pc # "done" /\ mesh = NoMesh)

\* C25: in ThreeMFViewer a load that has ended, on the success path or on
\* the failure path, is followed by isLoading being false.
LoadEnded ==
    /\ viewer = "ThreeMFViewer"
    /\ \E k \in 1..Len(loads) : loads[k].at \in {"done", "failed"} /\ ~loads[k].isCancelled

C25_LoadingStateEnds == [](LoadEnded => <>(~isLoading))

\* C26: in RealViewer what is rendered reflects the load of the current
\* url: once that load has succeeded its mesh is rendered, and once it has
\* failed no mesh of an earlier url is kept.
CurrentLoad == loads[Len(loads)]

SeveralColorGroups ==
    /\ viewer = "3MFLoader"
    /\ lpc \in {"meshes", "built"}
    /\ availableExtensions # <<>>
    /\ Len(archive.parts) = 1
    /\ NamespaceDeclared(archive.parts[1], MaterialsNs)
    /\ Len(archive.parts[1].colorgroups) >= 2
    /\ \A g \in 1..Len(archive.parts[1].colorgroups) :
          archive.parts[1].colorgroups[g].prefix = ExtensionPrefix(archive.parts[1].xmlns, MaterialsNs)
    /\ Len(ArchiveObjects) = 1
    /\ ArchiveObjects[1].props # <<>>
    /\ \A t \in 1..Len(ArchiveObjects[1].props) :
          /\ ArchiveObjects[1].props[t].pid = Attr(archive.parts[1].colorgroups[1].id)
          /\ ArchiveObjects[1].props[t].p1 # Absent

C29_EveryGroupKept ==
    SeveralColorGroups =>
        /\ builtMeshes[ArchiveObjects[1].id].color # <<>>
        /\ builtMeshes[ArchiveObjects[1].id].vertexColors

\* C27: parse throws before any archive entry is read and returns no scene;
\* load never invokes onLoad, and for a fetched file it invokes onError
\* exactly once when onError was supplied.
ParseThrew == loaderError = parse(archive).message

C28_NormalisationIdempotent ==
    [][\A u \in StlUrls :
          (effectRuns[u] >= 1 /\ effectRuns'[u] = effectRuns[u] + 1)
              => geometryCache'[u] = geometryCache[u]]_vars

C28_Witness ==
    /\ viewer = "RealViewer"
    /\ mounted
    /\ selectedModel = "linkedin"
    /\ effectRuns[StlUrl("linkedin")] >= 2
    /\ effectRuns[StlUrl("instagram")] >= 2
    /\ MaxDim(getSize(computeBoundingBox(geometryCache[StlUrl("linkedin")]))) = RInt(TargetSize)

\* C30: in STLViewer onLoadStart is invoked at most once per mounted
\* STLModelWithLoading and never after an onLoadComplete, and isLoading is
\* false once the component has committed with its geometry, whatever the
\* re-renders of the page.
C30_LoadCallbacksOrdered ==
    viewer = "STLViewer" =>
        /\ Cardinality({c \in 1..Len(calls) : calls[c] = "onLoadStart"}) <= 1
        /\ \A a \in 1..Len(calls), b \in 1..Len(calls) :
              (a < b /\ calls[a] = "onLoadComplete") => calls[b] # "onLoadStart"
        /\ mounted => (~isLoading /\ calls # <<>> /\ calls[1] = "onLoadStart")

C30_Witness ==
    /\ viewer = "STLViewer"
    /\ mounted
    /\ selectedColor # "red"
    /\ Len(calls) >= 4
    /\ calls[1] = "onLoadStart"
    /\ ~isLoading

====
